---------------------------- MODULE Spec2Model ----------------------------
(***************************************************************************)
(* A model of j-browne/gol: the Board of src/board.rs (construction,       *)
(* indexed access, live_neighbors, next, resize, the serde record) and the *)
(* Stage of src/main.rs (one action per button or click handled in draw).  *)
(*                                                                         *)
(* A Board is [size |-> <<width, height>>, data |-> sequence of BOOLEAN],  *)
(* the two fields of the Rust struct; data is 1-based here, so the cell    *)
(* (y, x) of the source, at offset y * width + x, is data[y*width+x+1].    *)
(*                                                                         *)
(* A call that can panic returns Ok(v) or Panic.                           *)
(***************************************************************************)
EXTENDS Integers, Sequences, FiniteSets, TLC

VARIABLES
    board,          \* Stage.board (always Some: set in Stage::new, never taken)
    file,           \* the content of the file that Stage.filename names
    edit_mode,      \* Stage.edit_mode
    resize_dialog,  \* Stage.resize: None, or the two text fields
    resize_warning, \* Stage.resize_warning
    status,         \* "running", "exited" (Quit) or "aborted" (a panic)
    last,           \* observer: the last operation and its outcome
    ret             \* observer: what the last direct call of a Board method returned

vars == <<board, file, edit_mode, resize_dialog, resize_warning, status, last, ret>>

----------------------------------------------------------------------------
(* Bounds of the model *)

\* SpecBoard draws grids of 0..MaxW columns and 0..MaxH rows.
MaxW == 3
MaxH == 4
\* SpecResize draws sources up to ResizeMaxW x ResizeMaxH and targets up to
\* one larger in each direction.
ResizeMaxW == 3
ResizeMaxH == 2
\* SpecCodec draws boards up to CodecMaxW x CodecMaxH.
CodecMaxW == 3
CodecMaxH == 2
\* Spec (the shell): the largest dimension that can be typed into the resize
\* dialog, and the side of the initial board (30 in the source).
ShellMaxDim == 2

\* main.rs: const BOARD_SCALE: f32 = 10.0
BOARD_SCALE == 10

----------------------------------------------------------------------------
(* Results of calls that may panic *)

Ok(v) == [ok |-> TRUE, val |-> v]
Panic == [ok |-> FALSE, val |-> 0]
NoRet == [ok |-> FALSE, val |-> -1]

Min(a, b) == IF a < b THEN a ELSE b

----------------------------------------------------------------------------
(* src/board.rs *)

\* Board::new.  The checked_mul overflow panic needs width * height above
\* usize::MAX, far outside every bound used here.
new(width, height) ==
    [size |-> <<width, height>>, data |-> [k \in 1..(width * height) |-> FALSE]]

\* The two assertions of Index / IndexMut and the bounds check of the Vec.
InBounds(b, y, x) ==
    /\ x < b.size[1]
    /\ y < b.size[2]
    /\ y * b.size[1] + x < Len(b.data)

\* Index::index, where InBounds holds.
index(b, y, x) == b.data[y * b.size[1] + x + 1]

\* IndexMut::index_mut followed by the assignment, where InBounds holds.
index_mut(b, y, x, v) == [b EXCEPT !.data[y * b.size[1] + x + 1] = v]

\* x_iter of live_neighbors.  size[0] - 1 is evaluated only when x /= 0, and
\* x < width then gives width >= 2: no usize underflow for an in-range cell.
x_iter(b, x) ==
    IF x = 0 THEN 0..1
    ELSE IF x = b.size[1] - 1 THEN (b.size[1] - 2)..(b.size[1] - 1)
    ELSE (x - 1)..(x + 1)

\* y_iter of live_neighbors: the edge test compares y with size[0] - 1 (the
\* width), the range it then yields comes from size[1] (the height).
y_iter(b, y) ==
    IF y = 0 THEN 0..1
    ELSE IF y = b.size[1] - 1 THEN (b.size[2] - 2)..(b.size[2] - 1)
    ELSE (y - 1)..(y + 1)

\* Board::live_neighbors: every (j, i) of the window is read through Index
\* (self[(j, i)] is the left operand of &&), so one read out of bounds panics.
live_neighbors(b, y, x) ==
    LET window == y_iter(b, y) \X x_iter(b, x) IN
    IF \E p \in window : ~InBounds(b, p[1], p[2])
    THEN Panic
    ELSE Ok(Cardinality({p \in window :
                index(b, p[1], p[2]) /\ ~(p[2] = x /\ p[1] = y)}))

\* The loop of Board::next from cell number k on (row-major, j outermost);
\* src is read, acc is the board being written.
RECURSIVE next_loop(_, _, _)
next_loop(src, acc, k) ==
    IF k >= src.size[1] * src.size[2]
    THEN Ok(acc)
    ELSE LET j == k \div src.size[1]
             i == k % src.size[1]
             n == live_neighbors(src, j, i)
         IN  IF ~n.ok THEN Panic
             ELSE IF n.val = 3 THEN next_loop(src, index_mut(acc, j, i, TRUE), k + 1)
             ELSE IF n.val = 2
                  THEN IF ~InBounds(src, j, i) THEN Panic
                       ELSE IF index(src, j, i)
                            THEN next_loop(src, index_mut(acc, j, i, TRUE), k + 1)
                            ELSE next_loop(src, acc, k + 1)
             ELSE next_loop(src, acc, k + 1)

\* Board::next
next(b) == next_loop(b, new(b.size[1], b.size[2]), 0)

\* The loop of Board::resize from overlap cell number k on; w and h are the
\* minima computed at the top of resize.
RECURSIVE resize_loop(_, _, _, _, _)
resize_loop(src, acc, w, h, k) ==
    IF k >= w * h
    THEN Ok(acc)
    ELSE LET y == k \div w
             x == k % w
         IN  IF ~InBounds(src, y, x) \/ ~InBounds(acc, y, x) THEN Panic
             ELSE resize_loop(src, index_mut(acc, y, x, index(src, y, x)), w, h, k + 1)

\* A resize that copies the first cells of the source as they lie in memory.
resize_flat(b, width, height) ==
    LET n == Min(width * height, Len(b.data)) IN
    Ok([size |-> <<width, height>>,
        data |-> [k \in 1..(width * height) |-> IF k <= n THEN b.data[k] ELSE FALSE]])

\* Board::resize
resize(b, width, height) ==
    resize_loop(b, new(width, height),
                Min(width, b.size[1]), Min(height, b.size[2]), 0)

\* Board::iter, consumed to its end (as the painter of main.rs does): every
\* cell of size is read through Index.
iter_ok(b) ==
    \A j \in 0..(b.size[2] - 1), i \in 0..(b.size[1] - 1) : InBounds(b, j, i)

----------------------------------------------------------------------------
(* Boards drawn as inputs *)

RECURSIVE BoolSeqs(_)
BoolSeqs(n) ==
    IF n = 0 THEN {<<>>}
    ELSE {Append(s, v) : s \in BoolSeqs(n - 1), v \in BOOLEAN}

\* Every board Board::new and the setter can build with width <= mw, height <= mh.
Grids(mw, mh) ==
    UNION {{[size |-> <<w, h>>, data |-> d] : d \in BoolSeqs(w * h)} :
           w \in 0..mw, h \in 0..mh}

Width(b) == b.size[1]
Height(b) == b.size[2]
Valid(b) == Len(b.data) = Width(b) * Height(b)

----------------------------------------------------------------------------
(* Direct calls of the Board methods on a drawn board *)

NoFile == [t |-> "absent", size |-> <<>>, data |-> <<>>, extra |-> FALSE]
Op(op, res, arg) == [op |-> op, res |-> res, arg |-> arg, fresh |-> FALSE]

InitShellFields ==
    /\ file = NoFile
    /\ edit_mode = FALSE
    /\ resize_dialog = <<>>
    /\ resize_warning = FALSE
    /\ status = "running"
    /\ last = Op("init", "", <<>>)
    /\ ret = NoRet

InitBoard ==
    /\ board \in Grids(MaxW, MaxH)
    /\ InitShellFields

CallLiveNeighbors(y, x) ==
    /\ last.op = "init"
    /\ ret' = live_neighbors(board, y, x)
    /\ last' = Op("live_neighbors", "", <<y, x>>)
    /\ UNCHANGED <<board, file, edit_mode, resize_dialog, resize_warning, status>>

CallNext ==
    /\ last.op = "init"
    /\ ret' = next(board)
    /\ last' = Op("next", "", <<>>)
    /\ UNCHANGED <<board, file, edit_mode, resize_dialog, resize_warning, status>>

NextBoard ==
    \/ \E y \in 0..(Height(board) - 1), x \in 0..(Width(board) - 1) :
          CallLiveNeighbors(y, x)
    \/ CallNext

SpecBoard == InitBoard /\ [][NextBoard]_vars

InitResize ==
    /\ board \in Grids(ResizeMaxW, ResizeMaxH)
    /\ InitShellFields

CallResize(width, height) ==
    /\ last.op = "init"
    /\ ret' = resize(board, width, height)
    /\ last' = Op("resize", "", <<width, height>>)
    /\ UNCHANGED <<board, file, edit_mode, resize_dialog, resize_warning, status>>

NextResize ==
    \E width \in 0..(ResizeMaxW + 1), height \in 0..(ResizeMaxH + 1) :
        CallResize(width, height)

SpecResize == InitResize /\ [][NextResize]_vars

----------------------------------------------------------------------------
(* The record of #[derive(Serialize, Deserialize)] on Board, as serde_json   *)
(* writes and reads it.  A file is absent, text that is no JSON document,    *)
(* a JSON document of another shape, or an object with the fields size (an   *)
(* array of numbers) and data (an array of booleans), possibly with a field  *)
(* the struct does not have.                                                 *)

NotJson == [t |-> "text", size |-> <<>>, data |-> <<>>, extra |-> FALSE]
OtherJson == [t |-> "json", size |-> <<>>, data |-> <<>>, extra |-> FALSE]
Record(size, data, extra) ==
    [t |-> "record", size |-> size, data |-> data, extra |-> extra]

Err == [ok |-> FALSE, val |-> 1]

\* An encoder that writes the dimensions as [height, width].
EncodeSwapped(b) == Record(<<b.size[2], b.size[1]>>, b.data, FALSE)

\* to_writer_pretty(file, &self.board): Some(board) is written as the board,
\* a map with the struct's two fields.
Encode(b) == Record(<<b.size[1], b.size[2]>>, b.data, FALSE)

\* from_reader::<Board>: size must be an array of exactly two numbers, data an
\* array of booleans of any length; a field the struct lacks is skipped
\* (no deny_unknown_fields).  Nothing relates the length of data to size.
Decode(f) ==
    IF f.t = "record" /\ Len(f.size) = 2
    THEN Ok([size |-> f.size, data |-> f.data])
    ELSE Err

----------------------------------------------------------------------------
(* str::parse::<usize> on the text fields of the resize dialog.  A text is a *)
(* sequence of one-character strings.                                        *)

DigitChars == <<"0", "1", "2", "3", "4", "5", "6", "7", "8", "9">>
IsDigit(c) == \E d \in 1..10 : DigitChars[d] = c
DigitValue(c) == (CHOOSE d \in 1..10 : DigitChars[d] = c) - 1

RECURSIVE DigitsValue(_)
DigitsValue(s) ==
    IF Len(s) = 0 THEN 0
    ELSE 10 * DigitsValue(SubSeq(s, 1, Len(s) - 1)) + DigitValue(s[Len(s)])

\* A leading "+" is accepted when digits follow; the empty text, a sign alone
\* and any other character are errors.
parse_usize(s) ==
    LET digits == IF Len(s) > 1 /\ s[1] = "+" THEN Tail(s) ELSE s IN
    IF Len(digits) = 0 \/ \E k \in 1..Len(digits) : ~IsDigit(digits[k])
    THEN Err
    ELSE Ok(DigitsValue(digits))

RECURSIVE DecimalText(_)
DecimalText(n) ==
    IF n < 10 THEN <<DigitChars[n + 1]>>
    ELSE Append(DecimalText(n \div 10), DigitChars[(n % 10) + 1])

\* What the user types into a field of the dialog.
TextInputs == {<<>>} \cup {DecimalText(n) : n \in 0..ShellMaxDim}

\* `as usize` on an f32: saturating, a negative value becomes 0.
as_usize(v) == IF v < 0 THEN 0 ELSE v

----------------------------------------------------------------------------
(* src/main.rs: Stage.  One action is one pass of draw in which one widget   *)
(* reports an event.  draw runs the top panel (Save, Load, Resize), the      *)
(* bottom panel (Edit, Next, Quit), the central panel (painting the board    *)
(* through Board::iter, then the click), then the resize window.             *)

\* The files the user can name: none, ones written by other programs.
OtherFiles == <<
    NoFile,
    NotJson,
    OtherJson,
    Record(<<2, 2>>, <<TRUE>>, FALSE),
    Record(<<1, 1>>, <<TRUE, FALSE>>, FALSE),
    Record(<<1>>, <<TRUE>>, FALSE),
    Record(<<1, 2>>, <<TRUE, FALSE>>, TRUE) >>

\* The painter consumes board.iter(): a read outside data panics.
Paint(b) == IF iter_ok(b) THEN "running" ELSE "aborted"

\* Stage::new: Board::new(30, 30), here with the side the bounds allow.
Init ==
    /\ board = new(ShellMaxDim, ShellMaxDim)
    /\ InitShellFields

\* The filename field is edited: it now names another file.
EditFilename(i) ==
    /\ status = "running"
    /\ file' = OtherFiles[i]
    /\ last' = Op("EditFilename", "", <<>>)
    /\ status' = Paint(board)
    /\ UNCHANGED <<board, edit_mode, resize_dialog, resize_warning, ret>>

\* "Save".  io is what the file system does: File::create fails (the file is
\* left as it was); to_writer_pretty fails after the file was truncated; the
\* write succeeds; or the BufWriter's flush on drop fails, which nothing reports.
Save(io) ==
    /\ status = "running"
    /\ file' = CASE io = "ok" -> Encode(board)
                 [] io = "create_failed" -> file
                 [] OTHER -> NotJson
    /\ last' = Op("Save", IF io = "flush_failed" THEN "ok" ELSE io, <<>>)
    /\ status' = Paint(board)
    /\ UNCHANGED <<board, edit_mode, resize_dialog, resize_warning, ret>>

\* "Load".  opened is whether File::open succeeds.
Load(opened) ==
    /\ status = "running"
    /\ file.t = "absent" => ~opened
    /\ LET d == Decode(file)
           res == IF ~opened THEN "open_failed"
                  ELSE IF d.ok THEN "ok" ELSE "invalid"
       IN  /\ board' = IF opened /\ d.ok THEN d.val ELSE board
           /\ last' = [Op("Load", res, <<>>) EXCEPT
                         !.fresh = (last.op = "Save" /\ last.res = "ok")]
    /\ status' = Paint(board')
    /\ UNCHANGED <<file, edit_mode, resize_dialog, resize_warning, ret>>

\* "Resize" in the top panel opens the dialog with two empty fields.
ResizeButton ==
    /\ status = "running"
    /\ resize_dialog' = <<<<>>, <<>>>>
    /\ last' = Op("Resize", "", <<>>)
    /\ status' = Paint(board)
    /\ UNCHANGED <<board, file, edit_mode, resize_warning, ret>>

\* "Edit" toggles edit_mode.
ToggleEdit ==
    /\ status = "running"
    /\ edit_mode' = ~edit_mode
    /\ last' = Op("Edit", "", <<>>)
    /\ status' = Paint(board)
    /\ UNCHANGED <<board, file, resize_dialog, resize_warning, ret>>

\* "Next": self.board = Some(board.next()), then the new board is painted.
NextButton ==
    /\ status = "running"
    /\ LET r == next(board) IN
       IF r.ok
       THEN /\ board' = r.val
            /\ status' = Paint(r.val)
            /\ last' = Op("Next", "ok", <<>>)
       ELSE /\ board' = board
            /\ status' = "aborted"
            /\ last' = Op("Next", "panic", <<>>)
    /\ UNCHANGED <<file, edit_mode, resize_dialog, resize_warning, ret>>

\* "Quit": std::process::exit(0).
Quit ==
    /\ status = "running"
    /\ status' = "exited"
    /\ last' = Op("Quit", "", <<>>)
    /\ UNCHANGED <<board, file, edit_mode, resize_dialog, resize_warning, ret>>

\* The offsets from the painter's origin, along an axis of n cells, at which
\* a click is drawn: the middle of every cell and the far edge of the painter's
\* rectangle (egui's Rect::contains includes both edges).
ClickOffsets(n) ==
    {c * BOARD_SCALE + (BOARD_SCALE \div 2) : c \in 0..(n - 1)} \cup {n * BOARD_SCALE}

\* A click on the painter at offset (dx, dy) from its origin, after the
\* painting: with edit_mode on, board[(y, x)] = !board[(y, x)] and nothing
\* compares (y, x) with the size before IndexMut does.
Click(dx, dy) ==
    /\ status = "running"
    /\ IF Paint(board) = "aborted"
       THEN /\ board' = board
            /\ status' = "aborted"
            /\ last' = Op("Click", "panic", <<>>)
       ELSE IF edit_mode
       THEN LET x == as_usize(dx \div BOARD_SCALE)
                y == as_usize(dy \div BOARD_SCALE)
            IN  IF InBounds(board, y, x)
                THEN /\ board' = index_mut(board, y, x, ~index(board, y, x))
                     /\ status' = "running"
                     /\ last' = Op("Click", "toggled", <<>>)
                ELSE /\ board' = board
                     /\ status' = "aborted"
                     /\ last' = Op("Click", "panic", <<>>)
       ELSE /\ board' = board
            /\ status' = "running"
            /\ last' = Op("Click", "ignored", <<>>)
    /\ UNCHANGED <<file, edit_mode, resize_dialog, resize_warning, ret>>

\* A text field of the open dialog is edited.
TypeResize(k, text) ==
    /\ status = "running"
    /\ resize_dialog # <<>>
    /\ resize_dialog' = [resize_dialog EXCEPT ![k] = text]
    /\ last' = Op("Type", "", <<>>)
    /\ status' = Paint(board)
    /\ UNCHANGED <<board, file, edit_mode, resize_warning, ret>>

\* "Cancel" in the dialog.
ResizeCancel ==
    /\ status = "running"
    /\ resize_dialog # <<>>
    /\ resize_dialog' = <<>>
    /\ resize_warning' = FALSE
    /\ last' = Op("Cancel", "", <<>>)
    /\ status' = Paint(board)
    /\ UNCHANGED <<board, file, edit_mode, ret>>

\* "Ok" in the dialog: both fields parse, the board is replaced by its resize
\* and the dialog closes; otherwise the warning is raised.
ResizeOk ==
    /\ status = "running"
    /\ resize_dialog # <<>>
    /\ LET w == parse_usize(resize_dialog[1])
           h == parse_usize(resize_dialog[2])
       IN  IF Paint(board) = "aborted"
           THEN /\ status' = "aborted"
                /\ last' = Op("Ok", "panic", <<>>)
                /\ UNCHANGED <<board, resize_dialog, resize_warning>>
           ELSE IF w.ok /\ h.ok
           THEN LET r == resize(board, w.val, h.val) IN
                IF r.ok
                THEN /\ board' = r.val
                     /\ resize_dialog' = <<>>
                     /\ resize_warning' = FALSE
                     /\ status' = "running"
                     /\ last' = Op("Ok", "ok", <<>>)
                ELSE /\ status' = "aborted"
                     /\ last' = Op("Ok", "panic", <<>>)
                     /\ UNCHANGED <<board, resize_dialog, resize_warning>>
           ELSE /\ resize_warning' = TRUE
                /\ status' = "running"
                /\ last' = Op("Ok", "parse_failed", <<>>)
                /\ UNCHANGED <<board, resize_dialog>>
    /\ UNCHANGED <<file, edit_mode, ret>>

Next ==
    \/ \E i \in 1..Len(OtherFiles) : EditFilename(i)
    \/ \E io \in {"ok", "create_failed", "write_failed", "flush_failed"} : Save(io)
    \/ \E opened \in BOOLEAN : Load(opened)
    \/ ResizeButton
    \/ ToggleEdit
    \/ NextButton
    \/ Quit
    \/ \E dx \in ClickOffsets(Width(board)), dy \in ClickOffsets(Height(board)) :
          Click(dx, dy)
    \/ \E k \in 1..2, text \in TextInputs : TypeResize(k, text)
    \/ ResizeCancel
    \/ ResizeOk

Spec == Init /\ [][Next]_vars

\* Save, Load and the choice of the file, from every valid board.
InitCodec ==
    /\ board \in Grids(CodecMaxW, CodecMaxH)
    /\ InitShellFields

NextCodec ==
    \/ \E i \in 1..Len(OtherFiles) : EditFilename(i)
    \/ \E io \in {"ok", "create_failed", "write_failed", "flush_failed"} : Save(io)
    \/ \E opened \in BOOLEAN : Load(opened)

SpecCodec == InitCodec /\ [][NextCodec]_vars

----------------------------------------------------------------------------
(* The claims *)

\* The window of spec 4.2: along an axis of n cells, the coordinates around c
\* clamped at both edges, the far edge tested against n itself.
ClampedRange(c, n) ==
    IF c = 0 THEN 0..1
    ELSE IF c = n - 1 THEN (n - 2)..(n - 1)
    ELSE (c - 1)..(c + 1)

\* The alive cells of the clamped window of (y, x), the cell itself excluded.
WindowCount(b, y, x) ==
    Cardinality({p \in ClampedRange(y, Height(b)) \X ClampedRange(x, Width(b)) :
        /\ p # <<y, x>>
        /\ InBounds(b, p[1], p[2])
        /\ index(b, p[1], p[2])})

Cells(b) == (0..(Height(b) - 1)) \X (0..(Width(b) - 1))
Alive(b) == {p \in Cells(b) : index(b, p[1], p[2])}

\* C1: on every grid of width >= 2 and height >= 2, square or not,
\* live_neighbors((y, x)) returns the number of alive cells of the clamped
\* window of (y, x), rows clamped against the height, (y, x) excluded.
C1_LiveNeighborsCountsClampedWindow ==
    (last.op = "live_neighbors" /\ Width(board) >= 2 /\ Height(board) >= 2)
        => (ret.ok /\ ret.val = WindowCount(board, last.arg[1], last.arg[2]))

\* C2: for every grid and every cell, next returns a grid whose cell (y, x) is
\* alive exactly when n = 3, or n = 2 and the cell was alive, n being the
\* live-neighbour count of (y, x) in the grid next was called on.
C2_NextAppliesRuleToPreStepGrid ==
    last.op = "next"
        => /\ ret.ok
           /\ \A p \in Cells(board) :
                LET n == WindowCount(board, p[1], p[2]) IN
                index(ret.val, p[1], p[2])
                    = (n = 3 \/ (n = 2 /\ index(board, p[1], p[2])))

\* C3: for a grid of any dimensions next reads no cell out of bounds: it does
\* not panic, and returns a grid of the size of its argument.
C3_NextNeverReadsOutOfBounds ==
    last.op = "next" => (ret.ok /\ ret.val.size = board.size /\ Valid(ret.val))

\* C4: in every reachable state of the shell the board holds width * height cells.
C4_SizeIntegrity == Valid(board)

Inconsistent(f) ==
    f.t = "record" /\ Len(f.size) = 2 /\ Len(f.data) # f.size[1] * f.size[2]

\* C5: a Load that opens a record whose data length differs from
\* size[0] * size[1] ends in a decode error and leaves the board as it was.
C5_LoadRejectsInconsistentRecord ==
    [][(Inconsistent(file) /\ last'.op = "Load" /\ last'.res # "open_failed")
          => (last'.res = "invalid" /\ board' = board)]_vars

\* C6: resize(g, w', h') of a grid g of size (w, h) has size (w', h'), agrees
\* with g on every (y, x) with y < min(h, h') and x < min(w, w'), is dead
\* everywhere else, and the call leaves g as it was.
C6_ResizePreservesOverlap ==
    /\ [](last.op = "resize"
            => /\ ret.ok
               /\ ret.val.size = <<last.arg[1], last.arg[2]>>
               /\ Valid(ret.val)
               /\ \A p \in Cells(ret.val) :
                    index(ret.val, p[1], p[2])
                        = IF p[1] < Height(board) /\ p[2] < Width(board)
                          THEN index(board, p[1], p[2])
                          ELSE FALSE)
    /\ [][last'.op = "resize" => board' = board]_vars

\* A shrink along one axis and a growth along the other, with an alive cell
\* kept and an alive cell clipped.
C6_Witness ==
    /\ last.op = "resize"
    /\ ret.ok
    /\ Width(ret.val) < Width(board)
    /\ Height(ret.val) > Height(board)
    /\ \E p \in Alive(board) : p[2] < Width(ret.val)
    /\ \E p \in Alive(board) : p[2] >= Width(ret.val)

C8_BlockIsStillLife ==
    (/\ last.op = "next"
     /\ Width(board) >= 3
     /\ Height(board) >= 3
     /\ Alive(board) = {<<0, 0>>, <<0, 1>>, <<1, 0>>, <<1, 1>>})
        => (ret.ok /\ ret.val = board)

\* C9: on a grid whose width and height are both below 2, next returns a grid
\* of the same size with every cell dead.
C9_TinyGridStepsToDead ==
    (last.op = "next" /\ Width(board) < 2 /\ Height(board) < 2)
        => /\ ret.ok
           /\ ret.val.size = board.size
           /\ \A k \in 1..Len(ret.val.data) : ~ret.val.data[k]

\* C10: a click changes the board only with edit mode on and the computed
\* (row, column) in range, and then negates exactly that cell; otherwise the
\* board is unchanged; and no click aborts the process.
C10_ClickTogglesOnlyInRange ==
    [][\A dx \in ClickOffsets(Width(board)), dy \in ClickOffsets(Height(board)) :
          Click(dx, dy) =>
            LET row == dy \div BOARD_SCALE
                col == dx \div BOARD_SCALE
            IN  /\ status' # "aborted"
                /\ board' = IF edit_mode /\ row < Height(board) /\ col < Width(board)
                            THEN index_mut(board, row, col, ~index(board, row, col))
                            ELSE board]_vars

=============================================================================
